---- MODULE Spec2Model ----
(***************************************************************************)
(* Frame headers of the yamux multiplexer (src/frame/header.rs).           *)
(*                                                                         *)
(* A RawHeader is the record {version, typ, flags, stream_id, length}.     *)
(* A Header<T> wraps a RawHeader together with the compile-time marker T   *)
(* (PhantomData<T>), modelled by the field header_type.  The model follows *)
(* one header value through its life: it is held either typed (hdr) or raw *)
(* (raw); into_raw and assert take their argument by move, so each binding *)
(* is an option, <<>> or <<value>>, and at most one of the two is full.    *)
(* The value is born once, by a constructor or by the deserializer, and    *)
(* then passes through any sequence of setters, into_raw and assert.       *)
(***************************************************************************)
EXTENDS Integers, Sequences, FiniteSets, TLC

\* ------------------------------------------------------------------ bounds
MaxId == 1          \* stream ids 0..MaxId are passed to the constructors
MaxLen == 1         \* 32-bit arguments 0..MaxLen, plus the largest u32
MaxVersion == 1     \* versions 0..MaxVersion arrive from the deserializer
MaxRawFlags == 1    \* flag words 0..MaxRawFlags arrive from it, plus 0xFFFF
MaxFlag == 16       \* operands 0..MaxFlag of Flags::contains / Flags::and

\* --------------------------------------------------------- integer widths
U16Max == 65535     \* Flags(pub u16)
FlagBits == 16

\* ------------------------------------------------------------- enum Type
Data == "Data"
WindowUpdate == "WindowUpdate"
Ping == "Ping"
GoAway == "GoAway"
Type == {Data, WindowUpdate, Ping, GoAway}

\* ------------------------------------------ struct RawHeader, Header<T>
\* Records are always written with their fields in the order of the struct.
RawHeader(version, typ, flags, stream_id, length) ==
    [version |-> version, typ |-> typ, flags |-> flags,
     stream_id |-> stream_id, length |-> length]

Header(raw_header, header_type) ==
    [raw_header |-> raw_header, header_type |-> header_type]

\* History records: a header is born by a constructor op(id, arg), or by
\* assert from the RawHeader src, which came from the deserializer or from
\* into_raw of a header born by from with marker fromKind.
Constructed(op, kind, id, arg) ==
    [op |-> op, kind |-> kind, id |-> id, arg |-> arg]

Asserted(kind, src, from, fromKind) ==
    [op |-> "assert", kind |-> kind, src |-> src, from |-> from,
     fromKind |-> fromKind]

\* -------------------------------------------------------- flag constants
SYN == 1
ACK == 2
FIN == 4
RST == 8

\* ----------------------------------------------- u16 bitwise primitives
RECURSIVE BitAnd(_, _)
BitAnd(x, y) ==
    IF x = 0 \/ y = 0 THEN 0
    ELSE (IF x % 2 = 1 /\ y % 2 = 1 THEN 1 ELSE 0) + 2 * BitAnd(x \div 2, y \div 2)

RECURSIVE BitOr(_, _)
BitOr(x, y) ==
    IF x = 0 THEN y
    ELSE IF y = 0 THEN x
    ELSE (IF x % 2 = 1 \/ y % 2 = 1 THEN 1 ELSE 0) + 2 * BitOr(x \div 2, y \div 2)

\* ------------------------------------------------------------ impl Flags
contains_eq(self, other) == self = other

contains(self, other) == BitAnd(self, other) = other

and_intersect(self, other) == BitAnd(self, other)

and(self, other) == BitOr(self, other)

\* ------------------------------------------------------------ stream::Id
\* stream::Id is a newtype over u32 defined in the stream module; an Id is
\* represented by the u32 it wraps.
IdNew(v) == v

\* ------------------------------------------------------- impl<T> Header<T>
Header_assert_clear(T, r) == Header([r EXCEPT !.flags = 0], T)

Header_assert_retag(T, r) == Header([r EXCEPT !.typ = T], T)

Header_assert(T, r) == Header(r, T)

id(h) == h.raw_header.stream_id

flags(h) == h.raw_header.flags

into_raw(h) == h.raw_header

\* ------------------------------------------------------ impl Header<Data>
data(i, n) ==
    Header(RawHeader(0, Data, 0, i, n), Data)

Data_syn(h) == [h EXCEPT !.raw_header.flags = BitOr(@, SYN)]

Data_ack(h) == [h EXCEPT !.raw_header.flags = BitOr(@, ACK)]

Data_fin_assign(h) == [h EXCEPT !.raw_header.flags = FIN]

Data_fin(h) == [h EXCEPT !.raw_header.flags = BitOr(@, FIN)]

Data_rst(h) == [h EXCEPT !.raw_header.flags = BitOr(@, RST)]

len(h) == h.raw_header.length

\* ---------------------------------------------- impl Header<WindowUpdate>
window_update_as_data(i, n) ==
    Header(RawHeader(0, Data, 0, i, n), WindowUpdate)

window_update_conn(i, n) ==
    Header(RawHeader(0, WindowUpdate, 0, IdNew(0), n), WindowUpdate)

window_update(i, n) ==
    Header(RawHeader(0, WindowUpdate, 0, i, n), WindowUpdate)

WindowUpdate_syn(h) == [h EXCEPT !.raw_header.flags = BitOr(@, SYN)]

WindowUpdate_ack(h) == [h EXCEPT !.raw_header.flags = BitOr(@, ACK)]

WindowUpdate_fin(h) == [h EXCEPT !.raw_header.flags = BitOr(@, FIN)]

WindowUpdate_rst_len(h) == [h EXCEPT !.raw_header.length = BitOr(@, RST)]

WindowUpdate_rst(h) == [h EXCEPT !.raw_header.flags = BitOr(@, RST)]

credit(h) == h.raw_header.length

\* ------------------------------------------------------ impl Header<Ping>
ping(n) ==
    Header(RawHeader(0, Ping, 0, IdNew(0), n), Ping)

Ping_syn(h) == [h EXCEPT !.raw_header.flags = BitOr(@, SYN)]

Ping_ack_fin(h) == [h EXCEPT !.raw_header.flags = BitOr(@, FIN)]

Ping_ack(h) == [h EXCEPT !.raw_header.flags = BitOr(@, ACK)]

nonce(h) == h.raw_header.length

\* ---------------------------------------------------- impl Header<GoAway>
go_away_id(n) ==
    Header(RawHeader(0, GoAway, 0, IdNew(n), n), GoAway)

go_away(n) ==
    Header(RawHeader(0, GoAway, 0, IdNew(0), n), GoAway)

error_code(h) == h.raw_header.length

\* ------------------------------------------------------------ input sets
\* stream::Id values a caller can pass to data and window_update.  The Id 0
\* is among them: ping and go_away build it, and id() hands it out.
StreamIds == 0..MaxId
\* Len(pub u32): the 32-bit slot is only ever stored and read back, never
\* computed with; 2147483647 is the largest value the checker's integers hold.
U32Values == (0..MaxLen) \cup {2147483647}
DecodedFlags == (0..MaxRawFlags) \cup {U16Max}
FlagOperands == (0..MaxFlag) \cup {U16Max}
Versions == 0..MaxVersion

\* ------------------------------------------------------------------ state
VARIABLES
    hdr,        \* the typed header binding: <<>> or <<Header<T>>>
    raw,        \* the raw header binding: <<>> or <<RawHeader>>
    born,       \* history: how the latest typed header came into being
    called,     \* history: the setters called on it since then
    fself,      \* Flags operand self
    fother,     \* Flags operand other
    fop,        \* the Flags method applied last
    fcontains,  \* result of self.contains(other)
    fand        \* result of self.and(other)

hvars == <<hdr, raw, born, called>>
fvars == <<fself, fother, fop, fcontains, fand>>
vars == <<hdr, raw, born, called, fself, fother, fop, fcontains, fand>>

H == hdr[1]

HeaderInit ==
    /\ hdr = <<>>
    /\ raw = <<>>
    /\ born = [op |-> "none"]
    /\ called = {}

FlagsIdle ==
    /\ fself = 0
    /\ fother = 0
    /\ fop = "none"
    /\ fcontains = FALSE
    /\ fand = 0

Init == HeaderInit /\ FlagsIdle

\* ----------------------------------------------------------- constructors
\* No header value has been born yet.
Unborn == born.op = "none"

Built(h, b) ==
    /\ Unborn
    /\ hdr' = <<h>>
    /\ born' = b
    /\ called' = {}
    /\ raw' = <<>>
    /\ UNCHANGED fvars

DataNew ==
    \E i \in StreamIds, n \in U32Values :
        Built(data(i, n), Constructed("data", Data, i, n))

WindowUpdateNew ==
    \E i \in StreamIds, n \in U32Values :
        Built(window_update(i, n), Constructed("window_update", WindowUpdate, i, n))

PingNew ==
    \E n \in U32Values :
        Built(ping(n), Constructed("ping", Ping, 0, n))

GoAwayNew ==
    \E n \in U32Values :
        Built(go_away(n), Constructed("go_away", GoAway, 0, n))

\* ---------------------------------------------------------------- setters
\* A setter exists only on the impl block of its marker type, so the guard
\* is on header_type, the compile-time kind, never on raw_header.typ.
Set(T, name, h) ==
    /\ hdr # <<>>
    /\ H.header_type = T
    /\ hdr' = <<h>>
    /\ called' = called \cup {name}
    /\ UNCHANGED <<raw, born, fvars>>

DataSyn == Set(Data, "syn", Data_syn(H))
DataAck == Set(Data, "ack", Data_ack(H))
DataFin == Set(Data, "fin", Data_fin(H))
DataRst == Set(Data, "rst", Data_rst(H))
WindowUpdateSyn == Set(WindowUpdate, "syn", WindowUpdate_syn(H))
WindowUpdateAck == Set(WindowUpdate, "ack", WindowUpdate_ack(H))
WindowUpdateFin == Set(WindowUpdate, "fin", WindowUpdate_fin(H))
WindowUpdateRst == Set(WindowUpdate, "rst", WindowUpdate_rst(H))
PingSyn == Set(Ping, "syn", Ping_syn(H))
PingAck == Set(Ping, "ack", Ping_ack(H))

\* ------------------------------------------------- unwrap and reconstruct
\* into_raw(self) consumes the header and yields its RawHeader.
IntoRaw ==
    /\ hdr # <<>>
    /\ raw' = <<into_raw(H)>>
    /\ hdr' = <<>>
    /\ UNCHANGED <<born, called, fvars>>

\* Header::<T>::assert(raw) consumes the RawHeader, for any marker T.
AssertAs(T) ==
    /\ raw # <<>>
    /\ hdr' = <<Header_assert(T, raw[1])>>
    /\ born' = Asserted(T, raw[1], born.op,
                         IF born.op = "decode" THEN "none" ELSE born.kind)
    /\ called' = {}
    /\ raw' = <<>>
    /\ UNCHANGED fvars

AssertKind == \E T \in Type : AssertAs(T)

\* The deserializer (a collaborator) hands over a RawHeader.  RawHeader and
\* all of its fields are public, so any combination of field values can arrive.
Decode ==
    \E v \in Versions, t \in Type, f \in DecodedFlags,
       i \in StreamIds, n \in U32Values :
        /\ Unborn
        /\ raw' = <<RawHeader(v, t, f, i, n)>>
        /\ hdr' = <<>>
        /\ born' = [op |-> "decode"]
        /\ called' = {}
        /\ UNCHANGED fvars

Next ==
    \/ DataNew \/ WindowUpdateNew \/ PingNew \/ GoAwayNew
    \/ DataSyn \/ DataAck \/ DataFin \/ DataRst
    \/ WindowUpdateSyn \/ WindowUpdateAck \/ WindowUpdateFin \/ WindowUpdateRst
    \/ PingSyn \/ PingAck
    \/ IntoRaw \/ AssertKind \/ Decode

Spec == Init /\ [][Next]_vars

\* ------------------------------------------- Flags methods on their own
FlagsInit ==
    /\ HeaderInit
    /\ fself \in FlagOperands
    /\ fother \in FlagOperands
    /\ fop = "none"
    /\ fcontains = FALSE
    /\ fand = 0

Contains ==
    /\ fop' = "contains"
    /\ fcontains' = contains(fself, fother)
    /\ UNCHANGED <<fself, fother, fand, hvars>>

And ==
    /\ fop' = "and"
    /\ fand' = and(fself, fother)
    /\ UNCHANGED <<fself, fother, fcontains, hvars>>

FlagsNext == Contains \/ And

FlagsSpec == FlagsInit /\ [][FlagsNext]_vars

\* =================================================================== claims
\* Bit i of the 16-bit word x, read arithmetically.
Bit(x, i) == (x \div (2 ^ i)) % 2 = 1

BitIndex == 0..(FlagBits - 1)

Live == hdr # <<>>

Constructors == {"data", "window_update", "ping", "go_away"}

\* The flag word the header was born with.
BornFlags == IF born.op = "assert" THEN born.src.flags ELSE 0

\* The setters called so far put bit i into the flag word.
CalledBit(i) ==
    \/ i = 0 /\ "syn" \in called
    \/ i = 1 /\ "ack" \in called
    \/ i = 2 /\ "fin" \in called
    \/ i = 3 /\ "rst" \in called

\* The length reader of the header's marker type.
Reader(h) ==
    CASE h.header_type = Data -> len(h)
      [] h.header_type = WindowUpdate -> credit(h)
      [] h.header_type = Ping -> nonce(h)
      [] h.header_type = GoAway -> error_code(h)

\* A step that keeps the same header and calls one of its setters.
SetterStep ==
    /\ hdr # <<>>
    /\ hdr' # <<>>
    /\ born' = born
    /\ called \subseteq called'

\* C1 - Flag monotonicity.  Whatever setters were called on a header, in any
\* order and any number of times, flags() is exactly the flag word the header
\* was born with plus the flag of every setter called; it depends only on the
\* set of setters called, and no call removes a flag that was set before.
FlagMonotonicity ==
    /\ [](Live => \A i \in BitIndex :
                     Bit(flags(H), i) <=> (Bit(BornFlags, i) \/ CalledBit(i)))
    /\ [][SetterStep => \A i \in BitIndex :
                           Bit(flags(H), i) => Bit(flags(hdr'[1]), i)]_vars

FlagMonotonicityWitness ==
    /\ Live
    /\ born.op = "data"
    /\ called = {"syn", "ack", "fin", "rst"}
    /\ flags(H) = 15

\* C2 - Round trip.  A header of kind K unwrapped with into_raw, rebuilt with
\* assert as the same kind K and unwrapped again gives a RawHeader equal field
\* by field to the first one.
RoundTrip ==
    (/\ raw # <<>>
     /\ born.op = "assert"
     /\ born.fromKind = born.kind
     /\ called = {})
    => /\ raw[1].version = born.src.version
       /\ raw[1].typ = born.src.typ
       /\ raw[1].flags = born.src.flags
       /\ raw[1].stream_id = born.src.stream_id
       /\ raw[1].length = born.src.length

RoundTripWitness ==
    /\ raw # <<>>
    /\ born.op = "assert"
    /\ born.from = "data"
    /\ born.fromKind = born.kind
    /\ called = {}
    /\ raw[1].flags = 5
    /\ raw[1].stream_id = 1

\* C3 (as stated) - Kind safety.  Every typed header has a discriminant typ
\* equal to its compile-time marker.
KindSafety == Live => H.raw_header.typ = H.header_type

\* C3 (amended) - Kind safety holds of the headers born by a constructor and
\* of those born by assert from a RawHeader whose typ is the asserted kind,
\* and the setters keep it.
KindSafetyClassified ==
    (Live /\ (born.op \in Constructors \/ born.src.typ = born.kind))
    => /\ H.raw_header.typ = H.header_type
       /\ H.header_type = born.kind

KindSafetyClassifiedWitness ==
    /\ Live
    /\ born.op = "assert"
    /\ born.from = "decode"
    /\ born.src.typ = born.kind
    /\ born.kind = WindowUpdate
    /\ called = {"fin"}

\* C4 - The reconstruction is total and unchecked.  assert is enabled for
\* every RawHeader and every marker; the header it returns carries the
\* RawHeader unchanged, typ included, also when typ is not the marker, and
\* the marker's length reader returns the RawHeader's length.
AssertUnchecked ==
    /\ raw # <<>> => \A T \in Type : ENABLED AssertAs(T)
    /\ (Live /\ born.op = "assert" /\ called = {})
       => /\ H.header_type = born.kind
          /\ into_raw(H) = born.src
          /\ Reader(H) = born.src.length

AssertUncheckedWitness ==
    /\ Live
    /\ born.op = "assert"
    /\ called = {}
    /\ born.kind = WindowUpdate
    /\ H.raw_header.typ = Ping
    /\ credit(H) = 2147483647

\* C5 - Stream-id policy.  A header born by ping or go_away has id() = 0, and
\* still has after any setters; a header born by data or window_update with a
\* nonzero id has id() equal to that id.
IdPolicy ==
    Live =>
      /\ born.op \in {"ping", "go_away"} => id(H) = 0
      /\ (born.op \in {"data", "window_update"} /\ born.id # 0) => id(H) = born.id

IdPolicyWitness ==
    /\ Live
    /\ born.op = "ping"
    /\ born.arg # 0
    /\ called = {"syn", "ack"}
    /\ id(H) = 0

\* C6 (as stated) - A header born by data or window_update never carries the
\* reserved stream id 0.
NonzeroStreamId ==
    (Live /\ born.op \in {"data", "window_update"}) => id(H) # 0

\* C6 (amended) - A header born by data or window_update carries the id its
\* constructor was given, whatever setters follow: nonzero exactly when the
\* id given is nonzero, and 0 when the id given is 0.
StreamIdAsGiven ==
    (Live /\ born.op \in {"data", "window_update"})
    => /\ id(H) = born.id
       /\ id(H) = 0 <=> born.id = 0

StreamIdAsGivenWitness ==
    /\ Live
    /\ born.op = "window_update"
    /\ born.id # 0
    /\ called = {"syn", "rst"}
    /\ id(H) = born.id

\* C7 - Per-kind flag reachability.  A constructor returns flags = 0; from
\* there a GoAway header keeps flags = 0, a Ping header never gets FIN or RST,
\* and no header gets a bit outside SYN|ACK|FIN|RST or a flag whose setter
\* was not called.
FlagReachability ==
    (Live /\ born.op \in Constructors)
    => /\ called = {} => flags(H) = 0
       /\ born.op = "go_away" => flags(H) = 0
       /\ born.op = "ping" => ~Bit(flags(H), 2) /\ ~Bit(flags(H), 3)
       /\ \A i \in BitIndex : Bit(flags(H), i) => CalledBit(i)
       /\ flags(H) \in 0..15

FlagReachabilityWitness ==
    /\ Live
    /\ born.op = "data"
    /\ called = {"syn", "fin"}
    /\ contains(flags(H), and(SYN, FIN))
    /\ ~contains(flags(H), ACK)

\* C8 - Frame of the setters.  A constructor fixes version = 0, typ = its
\* kind and the length slot = its argument; a setter changes the flags field
\* only; so the kind's length reader returns the constructor's argument after
\* any setters.
SetterFrame ==
    /\ []((Live /\ born.op \in Constructors)
          => /\ H.raw_header.version = 0
             /\ H.raw_header.typ = born.kind
             /\ H.raw_header.length = born.arg
             /\ Reader(H) = born.arg)
    /\ [][SetterStep =>
            /\ hdr'[1].header_type = H.header_type
            /\ hdr'[1].raw_header.version = H.raw_header.version
            /\ hdr'[1].raw_header.typ = H.raw_header.typ
            /\ hdr'[1].raw_header.stream_id = H.raw_header.stream_id
            /\ hdr'[1].raw_header.length = H.raw_header.length]_vars

SetterFrameWitness ==
    /\ Live
    /\ born.op = "window_update"
    /\ born.arg = 2147483647
    /\ called = {"syn", "ack", "fin", "rst"}
    /\ credit(H) = 2147483647

\* C9 - Flags::contains is a subset test: self.contains(other) is true
\* exactly when every bit of other is a bit of self.
ContainsIsSubset ==
    fop = "contains" =>
      /\ fcontains <=> \A i \in BitIndex : Bit(fother, i) => Bit(fself, i)
      /\ (fself = 0 /\ fother = 0) => fcontains
      /\ (fself = SYN /\ fother = SYN + FIN) => ~fcontains
      /\ (fself = SYN + FIN /\ fother = SYN) => fcontains

ContainsIsSubsetWitness ==
    /\ fop = "contains"
    /\ fself = SYN
    /\ fother = SYN + FIN
    /\ ~fcontains

\* C10 - Flags::and is the union: self.and(other) has exactly the bits of
\* self or of other, contains both operands, is commutative and idempotent,
\* and SYN.and(ACK) is 3.
AndIsUnion ==
    fop = "and" =>
      /\ \A i \in BitIndex : Bit(fand, i) <=> (Bit(fself, i) \/ Bit(fother, i))
      /\ fand \in 0..U16Max
      /\ contains(fand, fself)
      /\ contains(fand, fother)
      /\ fand = and(fother, fself)
      /\ and(fself, fself) = fself
      /\ (fself = SYN /\ fother = ACK) => fand = 3

AndIsUnionWitness ==
    /\ fop = "and"
    /\ fself = SYN
    /\ fother = ACK
    /\ fand = 3

====
